---- MODULE Spec2Model ----
(***************************************************************************)
(* Position mirror engine of tamzid2001/fxapi.                             *)
(*                                                                         *)
(* Two copiers are modelled, each the polling loop of one script:          *)
(*   "robinhood"   - src/mt5torobinhood.py, monitor_trades_forever         *)
(*   "tradelocker" - src/mt5totradelockercopier.py, copy_trades            *)
(* A behaviour runs one of them (variable copier, fixed by Init).          *)
(*                                                                         *)
(* One loop iteration ("tick") is run in steps: the fetch of the snapshot, *)
(* then one step per new ticket, then one step per closed ticket.  The     *)
(* step that handles the last ticket also runs the loop's tail             *)
(* (old_tickets = current_tickets).  The source account and the calendar   *)
(* change between ticks only.                                              *)
(***************************************************************************)
EXTENDS Integers, Sequences, FiniteSets, TLC

(* ------------------------------ bounds -------------------------------- *)

\* Ticket identifiers are 1..MaxTicket.  The source gives a new position an
\* identifier no part of the state still holds, so at most MaxTicket positions
\* are known to the copier at a time (in whatever state), over any number of
\* positions.
MaxTicket == 2

\* The day-trade counters add up to MaxCount at most (guard of the closing step).
MaxCount == 4

(* ------------------------- program constants -------------------------- *)

\* src/mt5totradelockercopier.py:27
MAGIC_NUMBER == 15

\* src/mt5torobinhood.py:201  (account_val >= 25000)
PdtEquity == 25000

\* src/mt5torobinhood.py:216  (day_trades_in_7_days >= 3)
PdtLimit == 3

\* src/mt5torobinhood.py:205  (timedelta(days=7))
WindowDays == 7

\* src/mt5torobinhood.py:170  (09:30:00 as seconds of the day)
OpenSec == 34200

\* src/mt5torobinhood.py:171  (16:00:00 as seconds of the day)
CloseSec == 57600

DaySec == 86400

(* ------------------------- sampled environment ------------------------ *)

Tickets == 1..MaxTicket

\* Calendar days (local date of the machine) the run passes through.  Days 0
\* and 1 are consecutive, 1 and 7 six days apart, 0 and 7 a full window apart.
Days == {0, 1, 7}

\* mt5 position types (ORDER_TYPE_BUY = 0, ORDER_TYPE_SELL = 1).
ORDER_TYPE_BUY == 0

ORDER_TYPE_SELL == 1

PositionTypes == {ORDER_TYPE_BUY, ORDER_TYPE_SELL}

\* Magic numbers a source position may carry.
Magics == {MAGIC_NUMBER, 7}

\* Sizes of a source position, in tenths of a lot (trade.volume is a float).
Volumes == {10}

\* What dt.now(pytz.timezone('US/Eastern')) can give: a failure of the
\* timezone lookup, or a weekday (0 = Monday) and the second of the day.
EasternReadings ==
    {[ok |-> FALSE, wd |-> 0, sec |-> 0]} \cup
    {[ok |-> TRUE, wd |-> r[1], sec |-> r[2]] :
        r \in {<<0, 34199>>, <<0, 34200>>, <<4, 57600>>, <<4, 57601>>, <<5, 43200>>}}

\* What load_account_profile()/float(portfolio_cash) can give.
Profiles ==
    {[ok |-> FALSE, cash |-> 0], [ok |-> TRUE, cash |-> 10000], [ok |-> TRUE, cash |-> 25000]}

\* Second of the (local) day at which dt.now() is read by the PDT check.
LocalSecs == {0, 43200}

\* The order id TradeLocker hands out for a ticket's order (truthy).
OrderIds(ticket) == {500 + ticket}

\* What get_latest_price may answer, in cents.
LastPrices == {25012}

(* ------------------------------ helpers ------------------------------- *)

Put(f, k, v) == [x \in DOMAIN f \cup {k} |-> IF x = k THEN v ELSE f[x]]

Remove(f, k) == [x \in DOMAIN f \ {k} |-> f[x]]

Empty == [x \in {} |-> 0]

RECURSIVE SumOver(_, _)
SumOver(f, S) ==
    IF S = {} THEN 0
    ELSE LET x == CHOOSE y \in S : TRUE IN f[x] + SumOver(f, S \ {x})

(* ----------------- src/mt5torobinhood.py: pure parts ------------------ *)

\* A faulty is_market_open_now that forgets the weekday test.
is_market_open_now_AnyDay(r) ==
    IF ~r.ok THEN FALSE
    ELSE (r.sec >= OpenSec) /\ (r.sec <= CloseSec)

\* is_market_open_now (lines 157-177) on the reading r of the Eastern clock.
is_market_open_now(r) ==
    IF ~r.ok THEN FALSE
    ELSE IF r.wd >= 5 THEN FALSE
    ELSE (r.sec >= OpenSec) /\ (r.sec <= CloseSec)

\* Line 209: strptime(day_str, "%Y-%m-%d") succeeds.  Days are numbered from
\* 0; a key that is not a date is modelled by a negative number.
strptime_ok(d) == d >= 0

\* A faulty sum that looks at the counter of today only.
day_trades_today_only(counts, today, sec) ==
    IF today \in DOMAIN counts THEN counts[today] ELSE 0

\* A faulty sum that never drops an old counter.
day_trades_in_7_days_All(counts, today, sec) ==
    SumOver(counts, {d \in DOMAIN counts : strptime_ok(d)})

\* A faulty sum that compares dates only: the day seven days back counts at
\* any time of day.
day_trades_in_7_days_Inclusive(counts, today, sec) ==
    SumOver(counts, {d \in DOMAIN counts : strptime_ok(d) /\ d >= today - WindowDays})

\* Lines 205-214: the sum of the counters whose day (at midnight) is not
\* before now - 7 days; now is day `today`, second `sec`.
day_trades_in_7_days(counts, today, sec) ==
    SumOver(counts,
            {d \in DOMAIN counts :
                /\ strptime_ok(d)
                /\ d * DaySec >= (today * DaySec + sec) - WindowDays * DaySec})

UsedReason(n) ==
    CASE n = 0 -> "Used 0 day trades in last 7 days"
      [] n = 1 -> "Used 1 day trades in last 7 days"
      [] n = 2 -> "Used 2 day trades in last 7 days"
      [] OTHER -> "Used N day trades in last 7 days"

\* A faulty check that empties the counters once it has summed them.
day_trades_count_after_Cleared(counts) == Empty

\* The global day_trades_count once account_equity_and_pdt_check has
\* returned: the function declares it global (line 191) and only iterates
\* over its items (lines 207-214).
day_trades_count_after(counts) == counts

\* A faulty check that lets the trade through when the lookup fails.
account_equity_and_pdt_check_FailOpen(profile, counts, today, sec) ==
    IF ~profile.ok
    THEN [ok |-> TRUE, reason |-> "Error retrieving portfolio_cash from profile"]
    ELSE IF profile.cash >= PdtEquity
    THEN [ok |-> TRUE, reason |-> "Account >= $25k, no PDT restrictions"]
    ELSE IF SumOver(counts,
                {d \in DOMAIN counts :
                    /\ strptime_ok(d)
                    /\ d * DaySec >= (today * DaySec + sec) - WindowDays * DaySec}) >= PdtLimit
    THEN [ok |-> FALSE, reason |-> "PDT limit reached (3+ day trades in last 7 days)"]
    ELSE [ok |-> TRUE, reason |-> "Used N day trades in last 7 days"]

\* A faulty check that denies only above three day trades.
account_equity_and_pdt_check_Above(profile, counts, today, sec) ==
    IF ~profile.ok
    THEN [ok |-> FALSE, reason |-> "Error retrieving portfolio_cash from profile"]
    ELSE IF profile.cash >= PdtEquity
    THEN [ok |-> TRUE, reason |-> "Account >= $25k, no PDT restrictions"]
    ELSE IF SumOver(counts,
                {d \in DOMAIN counts :
                    /\ strptime_ok(d)
                    /\ d * DaySec >= (today * DaySec + sec) - WindowDays * DaySec}) > PdtLimit
    THEN [ok |-> FALSE, reason |-> "PDT limit reached (3+ day trades in last 7 days)"]
    ELSE [ok |-> TRUE, reason |-> "Used N day trades in last 7 days"]

\* account_equity_and_pdt_check (lines 183-219): (bool, reason).
account_equity_and_pdt_check(profile, counts, today, sec) ==
    IF ~profile.ok
    THEN [ok |-> FALSE, reason |-> "Error retrieving portfolio_cash from profile"]
    ELSE IF profile.cash >= PdtEquity
    THEN [ok |-> TRUE, reason |-> "Account >= $25k, no PDT restrictions"]
    ELSE IF day_trades_in_7_days(counts, today, sec) >= PdtLimit
    THEN [ok |-> FALSE, reason |-> "PDT limit reached (3+ day trades in last 7 days)"]
    ELSE [ok |-> TRUE, reason |-> UsedReason(day_trades_in_7_days(counts, today, sec))]

(* ------------------------------- state -------------------------------- *)

VARIABLES
    copier,                 \* which script runs: "robinhood" or "tradelocker"
    world,                  \* what the environment of this run can answer
    positions,              \* the source account: ticket -> [type, magic, volume]
    today,                  \* the local calendar date (a day number)
    pc,                     \* where the loop is: "idle", "new" or "closed"
    old_tickets,            \* the loop's old_tickets
    current_positions,      \* the loop's current_positions (None or a snapshot)
    todo,                   \* tickets of the running for loop not yet visited
    ticket_to_rh,           \* robinhood: ticket -> [rh_info, open_time]
    day_trades_count,       \* robinhood: day -> count
    ticket_to_tradelocker,  \* tradelocker: ticket -> order id
    mapping_file,           \* tradelocker: the JSON file on disk
    executed,               \* history: day -> day trades whose close was submitted below $25k
    ev,                     \* history: what the last step did
    call,                   \* history: the last call of a function on its own
    close_sent              \* history: tickets whose present record had a close order submitted

vars ==
    <<copier, world, positions, today, pc, old_tickets, current_positions, todo,
      ticket_to_rh, day_trades_count, ticket_to_tradelocker, mapping_file, executed, ev,
      call, close_sent>>

(* --------------------------- values of state -------------------------- *)

\* positions_get() returned None (or raised before binding).
NoPositions == [ok |-> FALSE, pos |-> Empty]

Snapshot(p) == [ok |-> TRUE, pos |-> p]

\* current_tickets, lines 510-512 (robinhood) and 162 (tradelocker): None and
\* the empty tuple both give the empty set.
current_tickets(cp) == IF cp.ok /\ DOMAIN cp.pos # {} THEN DOMAIN cp.pos ELSE {}

NoClock == [ok |-> FALSE, wd |-> 0, sec |-> 0]

NoProfile == [ok |-> FALSE, cash |-> 0]

NoOrder ==
    [sent |-> FALSE, accepted |-> FALSE, side |-> "", effect |-> "",
     option_type |-> "", quantity |-> 0, exp |-> 0, id |-> 0, symbol |-> "", strike |-> 0]

\* rh_info is None.
NoInfo ==
    [some |-> FALSE, symbol |-> "", expiration_date |-> 0, strike |-> 0,
     option_type |-> "", quantity |-> 0, side |-> ""]

NoEvent ==
    [op |-> "none", ticket |-> 0, hours |-> "n/a", clock |-> NoClock, gate |-> "n/a",
     profile |-> NoProfile, reason |-> "", order |-> NoOrder, raised |-> FALSE]

\* The mapping file: absent, unparsable, or a JSON object with string keys.
NoFile == [state |-> "missing", doc |-> Empty]

\* No function called yet; input says which inputs are set ("gate", "mapping",
\* "counter", "trade", "record"); file is the file that load_trade_mapping
\* read, info the rh_info returned or passed, order the order submitted.
NoCall ==
    [fn |-> "", input |-> "", counts |-> Empty, day |-> 0, sec |-> 0, profile |-> NoProfile,
     sum |-> 0, ok |-> FALSE, reason |-> "", mapping |-> Empty, again |-> NoFile,
     open_time |-> 0, file |-> NoFile,
     trade |-> [type |-> 0, magic |-> 0, volume |-> 0], info |-> NoInfo, order |-> NoOrder]

CorruptFile == [state |-> "corrupt", doc |-> Empty]

(* ------------ src/mt5torobinhood.py: orders and translation ----------- *)

\* place_robinhood_option_order (lines 225-274): the order as submitted;
\* accepted is whether a response came back (no exception, truthy).
place_robinhood_option_order(symbol, exp_date, strike, option_type, quantity, side, position_effect, resp) ==
    [sent |-> TRUE, accepted |-> resp, side |-> side, effect |-> position_effect,
     option_type |-> option_type, quantity |-> quantity, exp |-> exp_date, id |-> 0,
     symbol |-> symbol, strike |-> strike]

\* The outcome of one gate evaluation, lines 288-296 and 380-388: every way the
\* two checks can come out, with what was read, and the counters afterwards.
GateOutcomes(counts, day, w) ==
    {[hours |-> "closed", clock |-> c, gate |-> "n/a", profile |-> NoProfile, reason |-> "",
      counts |-> counts] :
        c \in {c \in w.clocks : ~is_market_open_now(c)}}
    \cup
    {[hours |-> "open", clock |-> x[1],
      gate |-> IF account_equity_and_pdt_check(x[2], counts, day, x[3]).ok
               THEN "allow" ELSE "deny",
      profile |-> x[2],
      reason |-> account_equity_and_pdt_check(x[2], counts, day, x[3]).reason,
      counts |-> day_trades_count_after(counts)] :
        x \in {c \in w.clocks : is_market_open_now(c)} \X w.profiles \X LocalSecs}

Passed(g) == g.hours = "open" /\ g.gate = "allow"

\* A faulty copy that buys a call for every position, long or short.
copy_mt5_trade_to_robinhood_CallsOnly(pos, counts, day, w) ==
    LET quantity == pos.volume \div 10
        order(strike, resp) ==
            place_robinhood_option_order("TSLA", day, strike, "call", quantity, "buy",
                                         "open", resp)
        info(strike) ==
            [some |-> TRUE, symbol |-> "TSLA", expiration_date |-> day, strike |-> strike,
             option_type |-> "call", quantity |-> quantity, side |-> "buy"]
    IN  {[g |-> g, order |-> NoOrder, rh_info |-> NoInfo] :
            g \in GateOutcomes(counts, day, w)}
        \cup
        {[g |-> x[1], order |-> order(x[3], x[2]),
          rh_info |-> IF x[2] THEN info(x[3]) ELSE NoInfo] :
            x \in {g \in GateOutcomes(counts, day, w) : Passed(g)} \X BOOLEAN \X LastPrices}

\* A faulty copy that returns the order's description whether or not the
\* order came back.
copy_mt5_trade_to_robinhood_Unconditional(pos, counts, day, w) ==
    LET option_type == IF pos.type = ORDER_TYPE_BUY THEN "call" ELSE "put"
        quantity    == pos.volume \div 10
        order(strike, resp) ==
            place_robinhood_option_order("TSLA", day, strike, option_type, quantity, "buy",
                                         "open", resp)
        info(strike) ==
            [some |-> TRUE, symbol |-> "TSLA", expiration_date |-> day, strike |-> strike,
             option_type |-> option_type, quantity |-> quantity, side |-> "buy"]
    IN  {[g |-> g, order |-> NoOrder, rh_info |-> NoInfo] :
            g \in GateOutcomes(counts, day, w)}
        \cup
        {[g |-> x[1], order |-> order(x[3], x[2]), rh_info |-> info(x[3])] :
            x \in {g \in GateOutcomes(counts, day, w) : Passed(g)} \X BOOLEAN \X LastPrices}

\* copy_mt5_trade_to_robinhood (lines 280-364): every outcome for position
\* pos: the gate's, then price and bid lookups (quote), then the order.
\* Each outcome is [g, order, rh_info].
copy_mt5_trade_to_robinhood(pos, counts, day, w) ==
    LET option_type == IF pos.type = ORDER_TYPE_BUY THEN "call" ELSE "put"
        side        == "buy"
        quantity    == pos.volume \div 10      \* int(trade.volume)
        symbol      == "TSLA"
        \* strike_price = round(last_price, 2), line 319
        order(strike, resp) ==
            place_robinhood_option_order(symbol, day, strike, option_type, quantity, side,
                                         "open", resp)
        info(strike) ==
            [some |-> TRUE, symbol |-> symbol, expiration_date |-> day, strike |-> strike,
             option_type |-> option_type, quantity |-> quantity, side |-> side]
    IN  {[g |-> g, order |-> NoOrder, rh_info |-> NoInfo] :
            g \in {g \in GateOutcomes(counts, day, w) : ~Passed(g)}}
        \cup
        \* price or bid unavailable (lines 311-335)
        {[g |-> g, order |-> NoOrder, rh_info |-> NoInfo] :
            g \in {g \in GateOutcomes(counts, day, w) : Passed(g)}}
        \cup
        {[g |-> x[1], order |-> order(x[3], x[2]),
          rh_info |-> IF x[2] THEN info(x[3]) ELSE NoInfo] :
            x \in {g \in GateOutcomes(counts, day, w) : Passed(g)} \X BOOLEAN \X LastPrices}

\* A faulty close that repeats the side of the open.
close_robinhood_position_SameSide(rh_info, counts, day, w) ==
    LET order(resp) == place_robinhood_option_order(rh_info.symbol, rh_info.expiration_date,
                           rh_info.strike, rh_info.option_type, rh_info.quantity,
                           rh_info.side, "close", resp)
    IN  {[g |-> g, order |-> NoOrder] : g \in GateOutcomes(counts, day, w)}
        \cup
        {[g |-> x[1], order |-> order(x[2])] :
            x \in {g \in GateOutcomes(counts, day, w) : Passed(g)} \X BOOLEAN}

\* A faulty close that consults the trading hours but not the equity/PDT
\* check before it sells.
close_robinhood_position_HoursOnly(rh_info, counts, day, w) ==
    LET side_to_close == IF rh_info.side = "buy" THEN "sell" ELSE "buy"
        order(resp) == place_robinhood_option_order(rh_info.symbol, rh_info.expiration_date,
                           rh_info.strike, rh_info.option_type, rh_info.quantity,
                           side_to_close, "close", resp)
    IN  {[g |-> g, order |-> NoOrder] :
            g \in {g \in GateOutcomes(counts, day, w) : g.hours # "open"}}
        \cup
        {[g |-> x[1], order |-> order(x[2])] :
            x \in {g \in GateOutcomes(counts, day, w) : g.hours = "open"} \X BOOLEAN}

\* close_robinhood_position (lines 370-434) for a stored rh_info.
close_robinhood_position(rh_info, counts, day, w) ==
    LET side_to_close == IF rh_info.side = "buy" THEN "sell" ELSE "buy"
        order(resp) == place_robinhood_option_order(rh_info.symbol, rh_info.expiration_date,
                           rh_info.strike, rh_info.option_type, rh_info.quantity,
                           side_to_close, "close", resp)
    IN  {[g |-> g, order |-> NoOrder] :
            g \in {g \in GateOutcomes(counts, day, w) : ~Passed(g)}}
        \cup
        \* ask unavailable (lines 402-416)
        {[g |-> g, order |-> NoOrder] :
            g \in {g \in GateOutcomes(counts, day, w) : Passed(g)}}
        \cup
        {[g |-> x[1], order |-> order(x[2])] :
            x \in {g \in GateOutcomes(counts, day, w) : Passed(g)} \X BOOLEAN}

\* A faulty ledger that never counts.
record_day_trade_if_applicable_Never(counts, open_time, day) == counts

\* A faulty record_day_trade_if_applicable: counts the close whatever the
\* date the record was opened on.
record_day_trade_if_applicable_AnyDate(counts, open_time, day) ==
    Put(counts, day, (IF day \in DOMAIN counts THEN counts[day] ELSE 0) + 1)

\* record_day_trade_if_applicable (lines 440-450).
record_day_trade_if_applicable(counts, open_time, day) ==
    IF day = open_time
    THEN Put(counts, day, (IF day \in DOMAIN counts THEN counts[day] ELSE 0) + 1)
    ELSE counts

(* ------------- src/mt5totradelockercopier.py: the mapping ------------- *)

Digit(d) ==
    CASE d = 0 -> "0" [] d = 1 -> "1" [] d = 2 -> "2" [] d = 3 -> "3" [] d = 4 -> "4"
      [] d = 5 -> "5" [] d = 6 -> "6" [] d = 7 -> "7" [] d = 8 -> "8" [] d = 9 -> "9"

\* str(k) of a ticket (line 60), for tickets below 100.
str(k) == IF k < 10 THEN Digit(k) ELSE Digit(k \div 10) \o Digit(k % 10)

\* int(k) of a key written by str (line 43).
int(key) == CHOOSE k \in 0..99 : str(k) = key

\* A faulty load that returns what it had read of a damaged file before the
\* damage was met.
load_trade_mapping_Partial(file) ==
    IF file.state = "ok" THEN [k \in {int(x) : x \in DOMAIN file.doc} |-> file.doc[str(k)]]
    ELSE IF file.state = "corrupt" THEN Put(Empty, 1, 501)
    ELSE Empty

\* A faulty load that starts with an empty mapping whatever the file holds.
load_trade_mapping_AlwaysEmpty(file) == Empty

\* load_trade_mapping (lines 33-51): a missing or unparsable file gives {}.
load_trade_mapping(file) ==
    IF file.state = "ok"
    THEN [k \in {int(key) : key \in DOMAIN file.doc} |-> file.doc[str(k)]]
    ELSE Empty

\* What json.dump writes (line 60).
Document(mapping) ==
    [state |-> "ok",
     doc |-> [key \in {str(k) : k \in DOMAIN mapping} |-> mapping[int(key)]]]

\* save_trade_mapping (lines 53-63): the file after the call.  The write may
\* succeed, fail before the file is touched, or stop part-way; no failure
\* leaves the function.
save_trade_mapping(mapping, file, outcome) ==
    CASE outcome = "written"    -> Document(mapping)
      [] outcome = "unwritable" -> file
      [] outcome = "partial"    -> CorruptFile

SaveOutcomes == {"written", "unwritable", "partial"}

\* place_tradelocker_order (lines 219-245): every outcome for the order
\* details: the instrument lookup raises (nothing sent), create_order raises
\* or returns nothing, or an order id comes back.
place_tradelocker_order(order_details, ticket) ==
    LET sent(ok, id) ==
            [sent |-> TRUE, accepted |-> ok, side |-> order_details.side, effect |-> "open",
             option_type |-> "", quantity |-> order_details.quantity, exp |-> 0, id |-> id,
             symbol |-> "", strike |-> 0]
    IN  {NoOrder, sent(FALSE, 0)} \cup {sent(TRUE, id) : id \in OrderIds(ticket)}

\* close_tradelocker_order (lines 247-263): close_position is called; it
\* answers true, or answers false or raises.
close_tradelocker_order(order_id) ==
    {[sent |-> TRUE, accepted |-> ok, side |-> "", effect |-> "close",
      option_type |-> "", quantity |-> 0, exp |-> 0, id |-> order_id,
      symbol |-> "", strike |-> 0] : ok \in BOOLEAN}

(* ------------------------- the loop's control ------------------------- *)

\* Where the loop stands once the closed-tickets loop has R left to visit:
\* with nothing left, line 536 (210) runs and the tick is over.
AfterClosed(R, cp, old) ==
    IF R # {} THEN [pc |-> "closed", todo |-> R, old |-> old, cp |-> cp]
    ELSE [pc |-> "idle", todo |-> {}, old |-> current_tickets(cp), cp |-> NoPositions]

\* A faulty diff that takes every previous ticket for closed.
AfterNew_ClosesAll(R, cp, old) ==
    IF R # {} THEN [pc |-> "new", todo |-> R, old |-> old, cp |-> cp]
    ELSE AfterClosed(old, cp, old)

\* Where the loop stands once the new-tickets loop has R left to visit: with
\* nothing left, closed_tickets = old_tickets - current_tickets is next.
AfterNew(R, cp, old) ==
    IF R # {} THEN [pc |-> "new", todo |-> R, old |-> old, cp |-> cp]
    ELSE AfterClosed(old \ current_tickets(cp), cp, old)

\* A faulty except clause that leaves the loop.
Aborted_Leaves(old) == [pc |-> "left", todo |-> {}, old |-> old, cp |-> NoPositions]

\* The except clause of the loop (lines 538-541, 212-214): the tick is
\* abandoned, old_tickets keeps its value.
Aborted(old) == [pc |-> "idle", todo |-> {}, old |-> old, cp |-> NoPositions]

Goto(ctl) ==
    /\ pc' = ctl.pc
    /\ todo' = ctl.todo
    /\ old_tickets' = ctl.old
    /\ current_positions' = ctl.cp

(* ---------------- src/mt5torobinhood.py: the main loop ---------------- *)

\* Lines 502-515: positions_get() raises (continue), returns None, or
\* returns the open positions.
MonitorFetch ==
    /\ copier = "robinhood"
    /\ pc = "idle"
    /\ \E r \in world.fetches :
        /\ ev' = [NoEvent EXCEPT !.op = "fetch", !.raised = (r = "raise"), !.reason = r]
        /\ IF r = "raise"
           THEN Goto(Aborted(old_tickets))
           ELSE LET cp == IF r = "none" THEN NoPositions ELSE Snapshot(positions)
                IN  Goto(AfterNew(current_tickets(cp) \ old_tickets, cp, old_tickets))
    /\ UNCHANGED <<call, close_sent, copier, world, positions, today, ticket_to_rh, day_trades_count,
                   ticket_to_tradelocker, mapping_file, executed>>

\* Lines 516-523, one ticket of new_tickets; the print of line 520 may raise.
MonitorNewTicket(nt) ==
    /\ copier = "robinhood"
    /\ pc = "new"
    /\ nt \in todo
    /\ \E raised \in world.raises :
        IF raised
        THEN /\ ev' = [NoEvent EXCEPT !.op = "open", !.ticket = nt, !.raised = TRUE]
             /\ Goto(Aborted(old_tickets))
             /\ UNCHANGED <<ticket_to_rh, day_trades_count>>
        ELSE \E o \in copy_mt5_trade_to_robinhood(current_positions.pos[nt],
                                                  day_trades_count, today, world) :
             /\ ev' = [op |-> "open", ticket |-> nt, hours |-> o.g.hours,
                       clock |-> o.g.clock, gate |-> o.g.gate, profile |-> o.g.profile,
                       reason |-> o.g.reason, order |-> o.order, raised |-> FALSE]
             /\ ticket_to_rh' =
                    IF o.rh_info.some
                    THEN Put(ticket_to_rh, nt, [rh_info |-> o.rh_info, open_time |-> today])
                    ELSE ticket_to_rh
             /\ day_trades_count' = o.g.counts
             /\ Goto(AfterNew(todo \ {nt}, current_positions, old_tickets))
    /\ UNCHANGED <<call, close_sent, copier, world, positions, today,
                   ticket_to_tradelocker, mapping_file, executed>>

\* A faulty test that takes every closed ticket for a mirrored one.
has_record_Always(mapping, ticket) == TRUE

\* The test of line 528 (197): the closed ticket has a record.
has_record(mapping, ticket) == ticket \in DOMAIN mapping

\* Lines 527-533, one ticket of closed_tickets; the print of line 529 may
\* raise, and so does ticket_to_rh[ct] of line 530 for a ticket without a
\* record (KeyError), which the test of line 528 keeps away.
MonitorClosedTicket(ct) ==
    /\ copier = "robinhood"
    /\ pc = "closed"
    /\ ct \in todo
    /\ IF ~has_record(ticket_to_rh, ct)
       THEN /\ ev' = [NoEvent EXCEPT !.op = "skip", !.ticket = ct]
            /\ Goto(AfterClosed(todo \ {ct}, current_positions, old_tickets))
            /\ UNCHANGED <<ticket_to_rh, day_trades_count, executed>>
       ELSE IF ct \notin DOMAIN ticket_to_rh
       THEN /\ ev' = [NoEvent EXCEPT !.op = "close", !.ticket = ct, !.raised = TRUE]
            /\ Goto(Aborted(old_tickets))
            /\ UNCHANGED <<ticket_to_rh, day_trades_count, executed>>
       ELSE LET rh_info   == ticket_to_rh[ct].rh_info
                open_time == ticket_to_rh[ct].open_time
            IN  /\ (open_time = today) =>
                        /\ SumOver(day_trades_count, DOMAIN day_trades_count) < MaxCount
                        /\ SumOver(executed, DOMAIN executed) < MaxCount
                /\ \E raised \in world.raises :
                    IF raised
                    THEN /\ ev' = [NoEvent EXCEPT !.op = "close", !.ticket = ct, !.raised = TRUE]
                         /\ Goto(Aborted(old_tickets))
                         /\ UNCHANGED <<ticket_to_rh, day_trades_count, executed>>
                    ELSE \E o \in close_robinhood_position(rh_info, day_trades_count, today, world) :
                         /\ ev' = [op |-> "close", ticket |-> ct, hours |-> o.g.hours,
                                   clock |-> o.g.clock, gate |-> o.g.gate,
                                   profile |-> o.g.profile, reason |-> o.g.reason,
                                   order |-> o.order, raised |-> FALSE]
                         /\ day_trades_count' =
                                record_day_trade_if_applicable(o.g.counts, open_time, today)
                         /\ ticket_to_rh' = Remove(ticket_to_rh, ct)
                         /\ executed' =
                                IF o.order.sent /\ open_time = today /\ o.g.profile.cash < PdtEquity
                                THEN Put(executed, today,
                                         (IF today \in DOMAIN executed THEN executed[today] ELSE 0) + 1)
                                ELSE executed
                         /\ Goto(AfterClosed(todo \ {ct}, current_positions, old_tickets))
    /\ UNCHANGED <<call, close_sent, copier, world, positions, today, ticket_to_tradelocker, mapping_file>>

(* --------------------------- the environment -------------------------- *)

\* Tickets still held somewhere: open on the source, or kept by the copier.
Held ==
    DOMAIN positions \cup old_tickets \cup DOMAIN ticket_to_rh
    \cup DOMAIN ticket_to_tradelocker \cup DOMAIN load_trade_mapping(mapping_file)

\* A position opens on the source account, under a ticket not held anywhere.
SrcOpen ==
    /\ pc = "idle"
    /\ \E t \in Tickets \ Held, ty \in world.types, v \in Volumes,
          m \in world.magics :
        positions' = Put(positions, t, [type |-> ty, magic |-> m, volume |-> v])
    /\ ev' = NoEvent
    /\ UNCHANGED <<call, close_sent, copier, world, today, pc, old_tickets, current_positions, todo, ticket_to_rh,
                   day_trades_count, ticket_to_tradelocker, mapping_file, executed>>

\* A position closes on the source account.
SrcClose ==
    /\ pc = "idle"
    /\ \E t \in DOMAIN positions : positions' = Remove(positions, t)
    /\ ev' = NoEvent
    /\ UNCHANGED <<call, close_sent, copier, world, today, pc, old_tickets, current_positions, todo,
                   ticket_to_rh, day_trades_count, ticket_to_tradelocker, mapping_file, executed>>

\* Midnight passes (one or more times).
NextDay ==
    /\ pc = "idle"
    /\ copier = "robinhood"
    /\ \E d \in Days : d > today /\ today' = d
    /\ ev' = NoEvent
    /\ UNCHANGED <<call, close_sent, copier, world, positions, pc, old_tickets, current_positions, todo,
                   ticket_to_rh, day_trades_count, ticket_to_tradelocker, mapping_file, executed>>

(* ------------- src/mt5totradelockercopier.py: copy_trades ------------- *)

\* Where a print of one loop body can raise: not at all, before the call to
\* TradeLocker, or after it.
RaisePoints(raises) == IF TRUE \in raises THEN {"no", "before", "after"} ELSE {"no"}

\* Lines 161-165: positions_get() raises (the loop's except clause), returns
\* None, or returns the open positions.
CopyFetch ==
    /\ copier = "tradelocker"
    /\ pc = "idle"
    /\ \E r \in world.fetches :
        /\ ev' = [NoEvent EXCEPT !.op = "fetch", !.raised = (r = "raise"), !.reason = r]
        /\ IF r = "raise"
           THEN Goto(Aborted(old_tickets))
           ELSE LET cp == IF r = "none" THEN NoPositions ELSE Snapshot(positions)
                IN  Goto(AfterNew(current_tickets(cp) \ old_tickets, cp, old_tickets))
    /\ UNCHANGED <<call, close_sent, copier, world, positions, today, ticket_to_rh, day_trades_count,
                   ticket_to_tradelocker, mapping_file, executed>>

\* A faulty filter that lets every position through.
magic_matches_Any(position) == TRUE

\* Line 172: the position carries the magic number of the copier.
magic_matches(position) == position.magic = MAGIC_NUMBER

\* Lines 166-192, one ticket of new_tickets.  A print may raise before the
\* order is placed (lines 170, 173) or after it (lines 188, 192).
CopyNewTicket(ticket) ==
    /\ copier = "tradelocker"
    /\ pc = "new"
    /\ ticket \in todo
    /\ LET position == current_positions.pos[ticket]
           tradelocker_order ==
               [symbol |-> "", quantity |-> position.volume,
                side |-> IF position.type = ORDER_TYPE_BUY THEN "buy" ELSE "sell",
                type |-> "market"]
           event == [NoEvent EXCEPT !.op = "open", !.ticket = ticket]
       IN  \E raised \in RaisePoints(world.raises) :
            CASE raised = "before" ->
                    /\ ev' = [event EXCEPT !.raised = TRUE]
                    /\ Goto(Aborted(old_tickets))
                    /\ UNCHANGED <<ticket_to_tradelocker, mapping_file>>
              [] raised # "before" /\ ~magic_matches(position) ->
                    /\ raised = "no"
                    /\ ev' = event
                    /\ Goto(AfterNew(todo \ {ticket}, current_positions, old_tickets))
                    /\ UNCHANGED <<ticket_to_tradelocker, mapping_file>>
              [] raised # "before" /\ magic_matches(position) ->
                    \E order \in place_tradelocker_order(tradelocker_order, ticket) :
                        /\ ev' = [event EXCEPT !.order = order, !.raised = (raised = "after")]
                        /\ IF raised = "after"
                           THEN /\ Goto(Aborted(old_tickets))
                                /\ UNCHANGED <<ticket_to_tradelocker, mapping_file>>
                           ELSE /\ Goto(AfterNew(todo \ {ticket}, current_positions, old_tickets))
                                /\ IF order.accepted
                                   THEN /\ ticket_to_tradelocker' =
                                               Put(ticket_to_tradelocker, ticket, order.id)
                                        /\ \E outcome \in SaveOutcomes :
                                             mapping_file' =
                                                 save_trade_mapping(ticket_to_tradelocker',
                                                                    mapping_file, outcome)
                                   ELSE UNCHANGED <<ticket_to_tradelocker, mapping_file>>
    /\ close_sent' = IF ev'.order.accepted /\ ~ev'.raised
                     THEN close_sent \ {ticket}
                     ELSE close_sent
    /\ UNCHANGED <<call, copier, world, positions, today, ticket_to_rh, day_trades_count, executed>>

\* Lines 196-208, one ticket of closed_tickets.  A print may raise before the
\* close (line 199) or after it (lines 204, 208); ticket_to_tradelocker[ticket]
\* of line 198 raises for a ticket without a record (KeyError), which the test
\* of line 197 keeps away.
CopyClosedTicket(ticket) ==
    /\ copier = "tradelocker"
    /\ pc = "closed"
    /\ ticket \in todo
    /\ IF ~has_record(ticket_to_tradelocker, ticket)
       THEN /\ ev' = [NoEvent EXCEPT !.op = "skip", !.ticket = ticket]
            /\ Goto(AfterClosed(todo \ {ticket}, current_positions, old_tickets))
            /\ UNCHANGED <<ticket_to_tradelocker, mapping_file>>
       ELSE IF ticket \notin DOMAIN ticket_to_tradelocker
       THEN /\ ev' = [NoEvent EXCEPT !.op = "close", !.ticket = ticket, !.raised = TRUE]
            /\ Goto(Aborted(old_tickets))
            /\ UNCHANGED <<ticket_to_tradelocker, mapping_file>>
       ELSE LET order_id == ticket_to_tradelocker[ticket]
                event == [NoEvent EXCEPT !.op = "close", !.ticket = ticket]
            IN  \E raised \in RaisePoints(world.raises) :
                  IF raised = "before"
                  THEN /\ ev' = [event EXCEPT !.raised = TRUE]
                       /\ Goto(Aborted(old_tickets))
                       /\ UNCHANGED <<ticket_to_tradelocker, mapping_file>>
                  ELSE \E order \in close_tradelocker_order(order_id) :
                        /\ ev' = [event EXCEPT !.order = order, !.raised = (raised = "after")]
                        /\ IF raised = "after"
                           THEN /\ Goto(Aborted(old_tickets))
                                /\ UNCHANGED <<ticket_to_tradelocker, mapping_file>>
                           ELSE /\ Goto(AfterClosed(todo \ {ticket}, current_positions,
                                                    old_tickets))
                                /\ IF order.accepted
                                   THEN /\ ticket_to_tradelocker' =
                                               Remove(ticket_to_tradelocker, ticket)
                                        /\ \E outcome \in SaveOutcomes :
                                             mapping_file' =
                                                 save_trade_mapping(ticket_to_tradelocker',
                                                                    mapping_file, outcome)
                                   ELSE UNCHANGED <<ticket_to_tradelocker, mapping_file>>
    /\ close_sent' = IF ticket \notin DOMAIN ticket_to_tradelocker' THEN close_sent \ {ticket}
                     ELSE IF ev'.order.sent THEN close_sent \cup {ticket}
                     ELSE close_sent
    /\ UNCHANGED <<call, copier, world, positions, today, ticket_to_rh, day_trades_count, executed>>

(* ------------------------------- restart ------------------------------ *)

\* The process is stopped (anywhere) and started again.  robinhood (lines 33,
\* 482-494): the counters and the mapping start empty, old_tickets is the
\* initial snapshot, or empty when it cannot be had.  tradelocker (lines 157,
\* 271, 287): the mapping is loaded from the file and old_tickets is its keys.
Restart ==
    /\ pc' = "idle"
    /\ todo' = {}
    /\ current_positions' = NoPositions
    /\ ev' = [NoEvent EXCEPT !.op = "restart"]
    /\ IF copier = "robinhood"
       THEN /\ ticket_to_rh' = Empty
            /\ day_trades_count' = Empty
            /\ old_tickets' \in {DOMAIN positions, {}}
            /\ UNCHANGED ticket_to_tradelocker
       ELSE /\ ticket_to_tradelocker' = load_trade_mapping(mapping_file)
            /\ old_tickets' = DOMAIN ticket_to_tradelocker'
            /\ UNCHANGED <<ticket_to_rh, day_trades_count>>
    /\ close_sent' = {}
    /\ UNCHANGED <<call, copier, world, positions, today, mapping_file, executed>>

(* --------------------------- specifications --------------------------- *)

\* What the environment can answer to copier c when the positions of the run
\* are of type ty.  The robinhood copier never reads the magic number.
FullWorld(c, ty) ==
    [clocks |-> EasternReadings, profiles |-> Profiles, types |-> {ty},
     magics |-> IF c = "tradelocker" THEN Magics ELSE {MAGIC_NUMBER},
     fetches |-> {"raise", "none", "ok"}, raises |-> BOOLEAN]

\* An account whose equity stays below $25,000: the profile gives 10000 or fails.
SmallAccountWorld ==
    [clocks |-> {c \in EasternReadings : c.ok /\ c.sec \in {34200, 43200}},
     profiles |-> {p \in Profiles : p.cash < PdtEquity},
     types |-> {ORDER_TYPE_BUY}, magics |-> {MAGIC_NUMBER},
     fetches |-> {"ok"}, raises |-> {FALSE}]

\* The state when the loop is entered (robinhood lines 482-494, tradelocker
\* lines 157 and 271 on a first run).  The source account may already hold a
\* position; robinhood's initial positions_get() may fail.
Started ==
    /\ \E n \in {0, 1} :
        positions \in [1..n -> [type : world.types, magic : world.magics, volume : Volumes]]
    /\ today = 0
    /\ pc = "idle"
    /\ old_tickets \in IF copier = "robinhood" THEN {DOMAIN positions, {}} ELSE {{}}
    /\ current_positions = NoPositions
    /\ todo = {}
    /\ ticket_to_rh = Empty
    /\ day_trades_count = Empty
    /\ ticket_to_tradelocker = Empty
    /\ mapping_file = NoFile
    /\ executed = Empty
    /\ close_sent = {}
    /\ ev = NoEvent

Init ==
    /\ copier \in {"robinhood", "tradelocker"}
    /\ \E ty \in PositionTypes : world = FullWorld(copier, ty)
    /\ Started
    /\ call = NoCall

Monitor ==
    \/ MonitorFetch
    \/ \E t \in Tickets : MonitorNewTicket(t)
    \/ \E t \in Tickets : MonitorClosedTicket(t)

Copy ==
    \/ CopyFetch
    \/ \E t \in Tickets : CopyNewTicket(t)
    \/ \E t \in Tickets : CopyClosedTicket(t)

Next ==
    \/ Monitor
    \/ Copy
    \/ SrcOpen
    \/ SrcClose

\* One run of either copier, on one calendar day.
Spec == Init /\ [][Next]_vars

NextRestart ==
    \/ Next
    \/ Restart

\* Runs of either copier with restarts of the process.
SpecRestart == Init /\ [][NextRestart]_vars

InitWeek ==
    /\ copier = "robinhood"
    /\ world = SmallAccountWorld
    /\ Started
    /\ call = NoCall

NextWeek ==
    \/ Monitor
    \/ SrcOpen
    \/ SrcClose
    \/ NextDay

\* Runs of the robinhood copier over several days, on an account that stays
\* below $25,000.
SpecWeek == InitWeek /\ [][NextWeek]_vars

InitLive ==
    /\ copier = "tradelocker"
    /\ world = [SmallAccountWorld EXCEPT !.magics = Magics]
    /\ Started
    /\ call = NoCall

NextLive ==
    \/ Copy
    \/ SrcOpen
    \/ SrcClose

\* A close of TradeLocker that succeeds and is followed by the removal.
CopyClosedSucceeds == \E t \in Tickets : CopyClosedTicket(t) /\ ev'.order.accepted

\* Runs of the tradelocker copier in which positions_get() always answers and
\* no print raises.  The loop sleeps two seconds and goes on (line 216), so
\* its steps are taken as long as there are any (weak fairness), and a close
\* that is tried again and again succeeds in the end (strong fairness).
\* A tick that finds no difference between the snapshot and old_tickets
\* leaves every variable as it is: the loop polling on is a stuttering step.
SpecLive ==
    InitLive /\ [][NextLive]_vars /\ WF_vars(Copy) /\ SF_vars(CopyClosedSucceeds)

\* Every failure of the environment, on long positions and with one reading
\* of the clock and of the profile for each way the gate can go.
FaultyWorld(c) ==
    [clocks |-> {c1 \in EasternReadings : ~c1.ok \/ c1.sec = OpenSec},
     profiles |-> {p \in Profiles : p.cash < PdtEquity},
     types |-> {ORDER_TYPE_BUY},
     magics |-> IF c = "tradelocker" THEN Magics ELSE {MAGIC_NUMBER},
     fetches |-> {"raise", "none", "ok"}, raises |-> BOOLEAN]

InitFair ==
    /\ copier \in {"robinhood", "tradelocker"}
    /\ world = FaultyWorld(copier)
    /\ Started
    /\ call = NoCall

\* Runs of either copier with every failure, in which the process is left
\* running: after time.sleep the loop takes its next step (lines 544, 216).
SpecFair == InitFair /\ [][Next]_vars /\ WF_vars(Monitor) /\ WF_vars(Copy)

(* ------------------- the functions on their own ----------------------- *)

\* Keys of day_trades_count: dates around the days of NowDays, and a key that
\* is not a date.
CounterKeys == {-1, 0, 1, 5, 8, 9}

CounterValues == {1, 2, 5}

CounterSamples == UNION {[K -> CounterValues] : K \in SUBSET CounterKeys}

NowDays == {8, 9}

\* What float(portfolio_cash) can give, and a lookup that fails.
GateProfiles ==
    Profiles \cup {[ok |-> TRUE, cash |-> 24999]}

\* Mappings of tickets of one and two digits to order ids.
MappingSamples == UNION {[K -> {501, 502}] : K \in SUBSET {1, 9, 10, 12, 21}}

\* account_equity_and_pdt_check() is called with the counters, the time and
\* the profile answer that Init chose.
CallCheck ==
    /\ call.input = "gate"
    /\ call.fn = ""
    /\ call' = [call EXCEPT
                   !.fn = "account_equity_and_pdt_check",
                   !.sum = day_trades_in_7_days(call.counts, call.day, call.sec),
                   !.ok = account_equity_and_pdt_check(call.profile, call.counts,
                                                       call.day, call.sec).ok,
                   !.reason = account_equity_and_pdt_check(call.profile, call.counts,
                                                           call.day, call.sec).reason]
    /\ day_trades_count' = day_trades_count_after(call.counts)
    /\ UNCHANGED <<close_sent, copier, world, positions, today, pc, old_tickets, current_positions,
                   todo, ticket_to_rh, ticket_to_tradelocker, mapping_file, executed, ev>>

\* save_trade_mapping(mapping, file) writes the mapping that Init chose, then
\* load_trade_mapping(file) reads it into ticket_to_tradelocker.
CallSaveLoad ==
    /\ call.input = "mapping"
    /\ call.fn = ""
    /\ mapping_file' = save_trade_mapping(call.mapping, mapping_file, "written")
    /\ ticket_to_tradelocker' = load_trade_mapping(mapping_file')
    /\ call' = [call EXCEPT !.fn = "save_trade_mapping"]
    /\ UNCHANGED <<close_sent, copier, world, positions, today, pc, old_tickets, current_positions,
                   todo, ticket_to_rh, day_trades_count, executed, ev>>

\* load_trade_mapping(file) reads the file as it is (written, missing or
\* damaged) and save_trade_mapping writes what was read; again is the file
\* after doing the same once more.
CallLoadSave ==
    /\ call.input = "mapping"
    /\ call.fn \in {"", "save_trade_mapping"}
    /\ \E file \in {mapping_file, CorruptFile} :
        LET loaded == load_trade_mapping(file)
            written == save_trade_mapping(loaded, mapping_file, "written")
        IN  /\ ticket_to_tradelocker' = loaded
            /\ mapping_file' = written
            /\ call' = [call EXCEPT
                           !.fn = "load_trade_mapping",
                           !.file = file,
                           !.again = save_trade_mapping(load_trade_mapping(written),
                                                        written, "written")]
    /\ UNCHANGED <<close_sent, copier, world, positions, today, pc, old_tickets, current_positions,
                   todo, ticket_to_rh, day_trades_count, executed, ev>>

\* The dates a record may have been opened on.
OpenDays == {5, 8, 9}

\* record_day_trade_if_applicable(open_time) on the global counters that Init
\* chose; day_trades_count holds the counters after the call.
CallRecord ==
    /\ call.input = "counter"
    /\ call.fn = ""
    /\ day_trades_count' =
           record_day_trade_if_applicable(call.counts, call.open_time, call.day)
    /\ call' = [call EXCEPT !.fn = "record_day_trade_if_applicable"]
    /\ UNCHANGED <<close_sent, copier, world, positions, today, pc, old_tickets, current_positions,
                   todo, ticket_to_rh, ticket_to_tradelocker, mapping_file, executed, ev>>

\* Sizes of a source position, in tenths of a lot.
TradeVolumes == {5, 10, 25, 30}

TradeSamples == [type : PositionTypes, magic : {MAGIC_NUMBER}, volume : TradeVolumes]

\* Descriptions of an open order as copy_mt5_trade_to_robinhood returns them
\* (lines 353-360), and with the other side.
InfoSamples ==
    [some : {TRUE}, symbol : {"TSLA"}, expiration_date : NowDays, strike : {25012, 30000},
     option_type : {"call", "put"}, quantity : {1, 3}, side : {"buy", "sell"}]

\* copy_mt5_trade_to_robinhood(trade) on the day and with no day trade
\* counted: order is what it submitted, info what it returned.
CallCopy ==
    /\ call.input = "trade"
    /\ call.fn = ""
    /\ \E o \in copy_mt5_trade_to_robinhood(call.trade, call.counts, call.day, world) :
        call' = [call EXCEPT !.fn = "copy_mt5_trade_to_robinhood",
                             !.order = o.order, !.info = o.rh_info]
    /\ UNCHANGED <<close_sent, copier, world, positions, today, pc, old_tickets, current_positions,
                   todo, ticket_to_rh, day_trades_count, ticket_to_tradelocker,
                   mapping_file, executed, ev>>

\* close_robinhood_position(rh_info) on the day: order is what it submitted.
CallClose ==
    /\ call.input = "record"
    /\ call.fn = ""
    /\ \E o \in close_robinhood_position(call.info, call.counts, call.day, world) :
        call' = [call EXCEPT !.fn = "close_robinhood_position", !.order = o.order]
    /\ UNCHANGED <<close_sent, copier, world, positions, today, pc, old_tickets, current_positions,
                   todo, ticket_to_rh, day_trades_count, ticket_to_tradelocker,
                   mapping_file, executed, ev>>

\* The inputs of one call: of the gate check, or of the mapping functions
\* (with the file missing or damaged before the call).
InitCalls ==
    /\ copier = "tradelocker"
    /\ world = SmallAccountWorld
    /\ Started
    /\ \/ /\ call \in {[NoCall EXCEPT !.input = "gate", !.counts = x[1], !.day = x[2],
                                      !.sec = x[3], !.profile = x[4]] :
                          x \in CounterSamples \X NowDays \X LocalSecs \X GateProfiles}
       \/ /\ call \in {[NoCall EXCEPT !.input = "mapping", !.mapping = m] :
                          m \in MappingSamples}
       \/ /\ call \in {[NoCall EXCEPT !.input = "counter", !.counts = x[1], !.day = x[2],
                                      !.open_time = x[3]] :
                          x \in CounterSamples \X NowDays \X OpenDays}
       \/ /\ call \in {[NoCall EXCEPT !.input = "trade", !.trade = x[1], !.day = x[2]] :
                          x \in TradeSamples \X NowDays}
       \/ /\ call \in {[NoCall EXCEPT !.input = "record", !.info = x[1], !.day = x[2]] :
                          x \in InfoSamples \X NowDays}

NextCalls ==
    \/ CallCheck
    \/ CallSaveLoad
    \/ CallLoadSave
    \/ CallRecord
    \/ CallCopy
    \/ CallClose

\* The gate check and the mapping file functions, called on sampled inputs.
SpecCalls == InitCalls /\ [][NextCalls]_vars

\* The tickets of the snapshot taken before the loop starts (lines 483-491).
InitialTickets == {1}

\* A position opens on the source account after the start: MT5 gives it a
\* ticket that the initial snapshot did not hold.
SrcOpenLater ==
    /\ SrcOpen
    /\ DOMAIN positions' \ DOMAIN positions \subseteq Tickets \ InitialTickets

\* robinhood starts while the source account holds a position, and its
\* initial positions_get() succeeds: old_tickets is the snapshot's tickets.
InitBaseline ==
    /\ copier = "robinhood"
    /\ \E ty \in PositionTypes : world = FullWorld(copier, ty)
    /\ Started
    /\ DOMAIN positions = InitialTickets
    /\ old_tickets = InitialTickets
    /\ call = NoCall

NextBaseline ==
    \/ Monitor
    \/ SrcOpenLater
    \/ SrcClose

\* One run of the robinhood copier that found a position at its start.
SpecBaseline == InitBaseline /\ [][NextBaseline]_vars

(* ============================== claims ================================ *)

\* The mapping of the copier that runs, and the tickets it tracks.
Mirror == IF copier = "robinhood" THEN ticket_to_rh ELSE ticket_to_tradelocker

MirrorTickets == DOMAIN Mirror

\* The step taken visited ticket t of closed_tickets and called the close of
\* the destination (close_robinhood_position, close_tradelocker_order).
CloseAttempted(e, t) == e.op = "close" /\ e.ticket = t /\ (e.raised => e.order.sent)

PdtReason == "PDT limit reached (3+ day trades in last 7 days)"

\* The counters of the seven calendar days that end with day: day-6 .. day.
Last7Sum(counts, day) ==
    SumOver(counts, {d \in DOMAIN counts : d >= day - (WindowDays - 1) /\ d <= day})

\* C1: no duplicate opens.  No step submits an open order (nor creates a
\* record) for a ticket that has a MirrorRecord when the step starts.
C1_NoDuplicateOpens ==
    [][(ev'.op = "open" /\ (ev'.order.sent \/ Mirror' # Mirror))
        => ev'.ticket \notin MirrorTickets]_vars

\* C2: fetch-failure isolation.  A tick whose positions_get() raised or
\* returned None is a no-op: it has no deltas (the loop is back at its start
\* right away), old_tickets keeps its value, no order is submitted and no
\* record is removed.
C2_FetchFailureIsolation ==
    [][((ev'.op = "fetch" /\ ev'.reason # "ok") \/ (pc # "idle" /\ ~current_positions.ok))
        => /\ pc' = "idle"
           /\ old_tickets' = old_tickets
           /\ ~ev'.order.sent
           /\ MirrorTickets \subseteq MirrorTickets']_vars

\* C3: a record leaves the store in a step if and only if that step attempted
\* the close of its ticket (whether or not the destination close succeeded).
C3_RemovedIffCloseAttempted ==
    [][\A t \in MirrorTickets :
          (t \notin MirrorTickets') <=> CloseAttempted(ev', t)]_vars

\* C4: mirroring survives a restart.  The tickets tracked after a restart
\* are the tickets tracked when the process stopped.
C4_RestartKeepsTracking ==
    [][(ev'.op = "restart") => (MirrorTickets' = MirrorTickets)]_vars

\* C5: no orphaned closes.  A ticket that has a record and is no longer open
\* on the source eventually has no record.
C5_NoOrphanedCloses ==
    \A t \in Tickets :
        (t \in MirrorTickets /\ t \notin DOMAIN positions) ~> (t \notin MirrorTickets)

\* C6: accurate day-trade accounting.  The counters change only in a step
\* that submits the close order of a record opened today, and then today's
\* counter goes up by one.
C6_CountedOnlyWhenClosed ==
    [][(day_trades_count' # day_trades_count)
        => /\ ev'.op = "close"
           /\ ev'.order.sent
           /\ ev'.ticket \in DOMAIN ticket_to_rh
           /\ ticket_to_rh[ev'.ticket].open_time = today
           /\ day_trades_count' =
                  record_day_trade_if_applicable(day_trades_count, today, today)]_vars

\* C7: gate fail-closed.  Whenever the equity lookup of a gate check fails,
\* the check denies with a reason and the step submits no order, whatever
\* the counters hold.
C7_GateFailClosed ==
    (ev.op \in {"open", "close"} /\ ev.hours = "open" /\ ~ev.profile.ok)
        => (ev.gate = "deny" /\ ev.reason # "" /\ ~ev.order.sent)

C7_Witness ==
    /\ ev.op = "close"
    /\ ev.hours = "open"
    /\ ~ev.profile.ok
    /\ ev.gate = "deny"
    /\ day_trades_count # Empty

\* C8: trading-hours gate (robinhood).  An order is submitted only if the
\* Eastern clock read by the gate check of that step was resolved and showed
\* a weekday between 09:30:00 and 16:00:00 inclusive; otherwise the gate
\* reports closed and nothing is submitted.
InSession(c) == c.ok /\ c.wd \in 0..4 /\ c.sec >= 9 * 3600 + 30 * 60 /\ c.sec <= 16 * 3600

C8_TradingHoursGate ==
    (copier = "robinhood" /\ ev.op \in {"open", "close"} /\ ~ev.raised)
        => /\ ev.order.sent => (ev.hours = "open" /\ InSession(ev.clock))
           /\ ~InSession(ev.clock) => (ev.hours = "closed" /\ ~ev.order.sent)

C8_Witness ==
    /\ ev.op = "close"
    /\ ev.order.sent
    /\ ev.clock.wd = 4
    /\ ev.clock.sec = CloseSec

\* C9: PDT block.  With three or more day trades counted in the last seven
\* calendar days and an equity that is not read as $25,000 or more, the step
\* that handles a new ticket submits no order and creates no record; when the
\* equity is read (below $25,000) the check denies and cites the limit.
C9_PdtBlock ==
    [][(/\ ev'.op = "open"
        /\ Last7Sum(day_trades_count, today) >= 3
        /\ ev'.profile.cash < 25000)
        => /\ ~ev'.order.sent
           /\ ticket_to_rh' = ticket_to_rh
           /\ (ev'.hours = "open" /\ ev'.profile.ok)
                  => (ev'.gate = "deny" /\ ev'.reason = PdtReason)]_vars

C9_Witness ==
    /\ ev.op = "open"
    /\ ev.hours = "open"
    /\ ev.profile.ok
    /\ ev.profile.cash = 10000
    /\ ev.gate = "deny"
    /\ ev.reason = PdtReason
    /\ day_trades_count = (0 :> 2 @@ 1 :> 1)
    /\ today = 1
    /\ ev.ticket \notin DOMAIN ticket_to_rh

\* C10: on an account that stays below $25,000, the day trades executed
\* (open and close order both submitted on the same day) in any seven
\* consecutive calendar days are three at most.
C10_AtMostThreeDayTrades ==
    \A first \in -6..7 :
        SumOver(executed, {d \in DOMAIN executed : d >= first /\ d <= first + 6}) <= 3

\* Three day trades were executed today and the close order of a fourth
\* position opened today was refused.
C10_Witness ==
    /\ ev.op = "close"
    /\ ev.gate = "deny"
    /\ ev.reason = PdtReason
    /\ today \in DOMAIN executed
    /\ executed[today] = 3
    /\ day_trades_count[today] = 4

\* C11: end-to-end round trip (robinhood).  With the market open, equity
\* 10,000 and no day trade counted: the step that opens a new long ticket
\* with an accepted order stores the ticket with today as its open time (a
\* call, bought); the step that handles its disappearance on the same day is
\* allowed by the gate, sets today's counter to exactly 1 and removes the
\* ticket from the store, and the order it submits is the closing sell.
C11_RoundTrip ==
    [][/\ (/\ ev'.op = "open"
           /\ ev'.hours = "open" /\ ev'.profile.ok /\ ev'.profile.cash = 10000
           /\ day_trades_count = Empty
           /\ ev'.order.accepted
           /\ current_positions.pos[ev'.ticket].type = ORDER_TYPE_BUY)
          => /\ ev'.ticket \in DOMAIN ticket_to_rh'
             /\ ticket_to_rh'[ev'.ticket].open_time = today
             /\ ticket_to_rh'[ev'.ticket].rh_info.option_type = "call"
             /\ ticket_to_rh'[ev'.ticket].rh_info.side = "buy"
       /\ (/\ ev'.op = "close"
           /\ ev'.hours = "open" /\ ev'.profile.ok /\ ev'.profile.cash = 10000
           /\ day_trades_count = Empty
           /\ ev'.ticket \in DOMAIN ticket_to_rh
           /\ ticket_to_rh[ev'.ticket].open_time = today)
          => /\ ev'.gate = "allow"
             /\ day_trades_count' = (today :> 1)
             /\ ev'.ticket \notin DOMAIN ticket_to_rh'
             /\ ev'.order.sent =>
                    /\ ev'.order.effect = "close"
                    /\ ev'.order.side = "sell"
                    /\ ev'.order.option_type =
                           ticket_to_rh[ev'.ticket].rh_info.option_type]_vars

C11_Witness ==
    /\ ev.op = "close"
    /\ ev.profile.cash = 10000
    /\ ev.gate = "allow"
    /\ ev.order.sent
    /\ ev.order.side = "sell"
    /\ ev.order.option_type = "call"
    /\ day_trades_count = (0 :> 1)
    /\ executed = (0 :> 1)
    /\ ev.ticket \notin DOMAIN ticket_to_rh

\* C12: rolling window.  With counters dated T0, T0-3d and T0-8d only, the
\* sum evaluated on day T0 is the counters of T0 and T0-3d in full; the one
\* of T0-8d never contributes: {T0:2, T0-3d:1, T0-8d:5} gives 3.
C12_RollingWindow ==
    (/\ call.fn = "account_equity_and_pdt_check"
     /\ DOMAIN call.counts \subseteq {call.day, call.day - 3, call.day - 8})
        => call.sum = SumOver(call.counts, DOMAIN call.counts \cap {call.day, call.day - 3})

C12_Witness ==
    /\ call.fn = "account_equity_and_pdt_check"
    /\ call.day = 8
    /\ call.counts = (8 :> 2 @@ 5 :> 1 @@ 0 :> 5)
    /\ call.sum = 3

\* C13: diff correctness.  In a tick whose fetch succeeded, with current the
\* tickets of the snapshot and previous the value of old_tickets: the tickets
\* visited as new are exactly current - previous, the tickets visited as
\* closed are exactly previous - current, so the two sets are disjoint and a
\* ticket in both snapshots gets neither an open nor a close.
C13_DiffCorrectness ==
    [][/\ (ev'.op = "fetch" /\ ev'.reason = "ok")
          => LET current == DOMAIN positions
                 previous == old_tickets
             IN  /\ (current \ previous # {})
                        => (pc' = "new" /\ todo' = current \ previous)
                 /\ (current \ previous = {} /\ previous \ current # {})
                        => (pc' = "closed" /\ todo' = previous \ current)
                 /\ (current = previous) => (pc' = "idle" /\ old_tickets' = current)
       /\ (pc # "idle" /\ current_positions.ok)
          => LET current == DOMAIN current_positions.pos
                 previous == old_tickets
             IN  /\ (ev'.op = "open") => (ev'.ticket \in current \ previous)
                 /\ (ev'.op \in {"close", "skip"}) => (ev'.ticket \in previous \ current)
                 /\ (pc = "new" /\ pc' = "closed") => (todo' = previous \ current)
                 /\ (pc = "closed" /\ pc' = "closed") => (todo' = todo \ {ev'.ticket})
                 /\ (pc = "new" /\ pc' = "new") => (todo' = todo \ {ev'.ticket})
                 /\ (pc' = "idle" /\ ~ev'.raised) => (old_tickets' = current)]_vars

\* Ticket 2 was opened and ticket 1 closed, each mirrored, and the tick ended.
C13_Witness ==
    /\ ev.op = "close"
    /\ ev.ticket = 1
    /\ ev.order.sent
    /\ pc = "idle"
    /\ old_tickets = {2}
    /\ DOMAIN positions = {2}
    /\ MirrorTickets = {2}

\* C14: persistence round trip.  A mapping with integer ticket keys that is
\* saved and loaded back is the same mapping; and loading a file and saving
\* what was loaded, done twice, leaves the file that doing it once leaves
\* (which loads as the mapping in memory).
C14_PersistenceRoundTrip ==
    /\ (call.fn = "save_trade_mapping") => (ticket_to_tradelocker = call.mapping)
    /\ (call.fn = "load_trade_mapping")
          => /\ call.again = mapping_file
             /\ load_trade_mapping(call.again) = ticket_to_tradelocker

C14_Witness ==
    /\ call.fn = "save_trade_mapping"
    /\ call.mapping = (1 :> 501 @@ 12 :> 502 @@ 21 :> 501)
    /\ ticket_to_tradelocker = call.mapping
    /\ DOMAIN mapping_file.doc = {"1", "12", "21"}

\* The counters of the model have reached their bound; the steps that count
\* a day trade are not taken beyond it.
BudgetSpent ==
    \/ SumOver(day_trades_count, DOMAIN day_trades_count) >= MaxCount
    \/ SumOver(executed, DOMAIN executed) >= MaxCount

\* C15: the loop never stops on its own.  Whatever fails (fetch, equity
\* lookup, quote, order, write of the mapping file, an exception in the tick
\* body), the loop runs another tick later on, and never leaves its body; and
\* whatever the writes of the mapping file did, the mapping in memory is the
\* one the loop goes by: an accepted open is entered in it, and a closed
\* ticket is closed, with the order id held in memory, exactly when it is in it.
C15_LoopNeverStops ==
    /\ ([]<>(ev.op = "fetch")) \/ (<>[]BudgetSpent)
    /\ [](pc \in {"idle", "new", "closed"})
    /\ [][(copier = "tradelocker")
            => /\ (ev'.op = "open" /\ ev'.order.accepted /\ ~ev'.raised)
                    => ticket_to_tradelocker' =
                           Put(ticket_to_tradelocker, ev'.ticket, ev'.order.id)
               /\ (ev'.op = "close")
                    => /\ ev'.ticket \in DOMAIN ticket_to_tradelocker
                       /\ ev'.order.sent
                            => ev'.order.id = ticket_to_tradelocker[ev'.ticket]
               /\ (ev'.op = "skip") => ev'.ticket \notin DOMAIN ticket_to_tradelocker]_vars

\* The mapping file was left damaged by a write that failed, and a mirrored
\* position was closed from the mapping in memory; the loop is at its top.
C15_Witness ==
    /\ copier = "tradelocker"
    /\ ev.op = "close"
    /\ ev.order.accepted
    /\ mapping_file.state = "corrupt"
    /\ ticket_to_tradelocker = Empty
    /\ pc = "idle"

\* C16: magic-number filter (tradelocker).  A step of the loop submits an
\* open order, or enters or changes a mapping entry, only for the new ticket
\* it handles and only when the position of that ticket carries MAGIC_NUMBER;
\* a position with another magic number gets neither.
C16_MagicFilter ==
    [][(copier = "tradelocker" /\ ev'.op # "restart")
        => /\ \A t \in DOMAIN ticket_to_tradelocker' :
                (t \notin DOMAIN ticket_to_tradelocker
                 \/ ticket_to_tradelocker'[t] # ticket_to_tradelocker[t])
                    => /\ ev'.op = "open"
                       /\ ev'.ticket = t
                       /\ current_positions.pos[t].magic = MAGIC_NUMBER
           /\ (ev'.op = "open" /\ ev'.order.sent)
                => current_positions.pos[ev'.ticket].magic = MAGIC_NUMBER
           /\ (ev'.op = "open" /\ ~ev'.raised
               /\ current_positions.pos[ev'.ticket].magic # MAGIC_NUMBER)
                => (~ev'.order.sent /\ ticket_to_tradelocker' = ticket_to_tradelocker)]_vars

\* A new position with magic number 7 was seen and passed over; the tick ended.
C16_Witness ==
    /\ copier = "tradelocker"
    /\ ev.op = "open"
    /\ ~ev.raised
    /\ ~ev.order.sent
    /\ ev.ticket \in DOMAIN positions
    /\ positions[ev.ticket].magic = 7
    /\ ev.ticket \notin DOMAIN ticket_to_tradelocker
    /\ ev.ticket \in old_tickets
    /\ pc = "idle"

\* C17: open retry after a translation failure (robinhood).  When the step
\* for a new ticket passes the gate but submits nothing because the price or
\* the bid could not be had, the ticket stays a candidate: the tick does not
\* put it in old_tickets, so the next tick finds it new again.
C17_OpenRetried ==
    [][(/\ copier = "robinhood"
        /\ ev'.op = "open"
        /\ ~ev'.raised
        /\ ev'.hours = "open" /\ ev'.gate = "allow"
        /\ ~ev'.order.sent
        /\ pc' = "idle")
        => ev'.ticket \notin old_tickets']_vars

\* C18: resume after an unexpected exception.  When a step of the tick body
\* raises after the snapshot was fetched, the next tick starts with the
\* tickets of that snapshot as old_tickets.
C18_ResumeWithLastSnapshot ==
    [][(ev'.raised /\ ev'.op \in {"open", "close"})
        => (pc' = "idle" /\ old_tickets' = current_tickets(current_positions))]_vars

\* The rolling sum in calendar terms: the counters of the dates after the day
\* seven days back, and of that day itself only at midnight sharp; keys that
\* are not dates are left out.
RollingSum(counts, day, sec) ==
    SumOver(counts, {d \in DOMAIN counts :
                        /\ d >= 0
                        /\ (d > day - 7 \/ (d = day - 7 /\ sec = 0))})

\* C19: equity/PDT decision.  When the equity lookup succeeds the check
\* allows if equity >= 25,000, whatever the counters hold; below 25,000 it
\* denies exactly when the rolling sum is 3 or more; and every result,
\* that of a failed lookup too, has a reason.
C19_EquityPdtDecision ==
    (call.fn = "account_equity_and_pdt_check")
        => /\ call.reason # ""
           /\ call.profile.ok =>
                /\ (call.profile.cash >= 25000) => call.ok
                /\ (call.profile.cash < 25000)
                      => (call.ok <=> RollingSum(call.counts, call.day, call.sec) < 3)

C19_Witness ==
    /\ call.fn = "account_equity_and_pdt_check"
    /\ call.profile.ok
    /\ call.profile.cash = 24999
    /\ RollingSum(call.counts, call.day, call.sec) = 3
    /\ ~call.ok
    /\ call.reason = PdtReason

\* C20 as stated: the rolling sum is the sum of the counters dated from seven
\* days before today to today, both ends included.
C20_WindowBothEndsInclusive ==
    (call.fn = "account_equity_and_pdt_check")
        => call.sum = SumOver(call.counts,
                              {d \in DOMAIN call.counts :
                                  d >= 0 /\ d >= call.day - 7 /\ d <= call.day})

\* C20, amended: the rolling sum is the sum of the counters whose date, taken
\* at midnight, is not before now - 7 days: the dates after the day seven
\* days back, that day itself only when now is midnight sharp, and any later
\* date (there is no upper end); keys that are not dates are skipped.
C20_WindowFromSevenDaysBack ==
    (call.fn = "account_equity_and_pdt_check")
        => call.sum = RollingSum(call.counts, call.day, call.sec)

\* At noon of day 8: the counter of day 1 is left out, the one of day 9 is
\* counted, the key that is no date is skipped.
C20_Witness ==
    /\ call.fn = "account_equity_and_pdt_check"
    /\ call.day = 8
    /\ call.sec = 43200
    /\ call.counts = (-1 :> 5 @@ 1 :> 5 @@ 8 :> 1 @@ 9 :> 2)
    /\ call.sum = 3

\* C21: record_day_trade_if_applicable(open_time).  When open_time falls on
\* today's date, today's counter is one more than before (one when it was
\* absent) and every other date keeps its counter; when the dates differ the
\* counters are the same as before.  No counter decreases or is negative.
C21_RecordDayTrade ==
    (call.fn = "record_day_trade_if_applicable") =>
        LET before == call.counts
            after == day_trades_count
            was == IF call.day \in DOMAIN before THEN before[call.day] ELSE 0
        IN  /\ (call.open_time = call.day) =>
                  /\ DOMAIN after = DOMAIN before \cup {call.day}
                  /\ after[call.day] = was + 1
                  /\ \A d \in DOMAIN before \ {call.day} : after[d] = before[d]
            /\ (call.open_time # call.day) => after = before
            /\ \A d \in DOMAIN before :
                  d \in DOMAIN after /\ after[d] >= before[d] /\ after[d] >= 0

\* A record opened and closed on day 9, which had no counter yet, while
\* day 8 had one.
C21_Witness ==
    /\ call.fn = "record_day_trade_if_applicable"
    /\ call.open_time = 9 /\ call.day = 9
    /\ 9 \notin DOMAIN call.counts /\ 8 \in DOMAIN call.counts
    /\ day_trades_count[9] = 1
    /\ day_trades_count[8] = call.counts[8]

\* C22: a record is created only by success.  A step that puts a record
\* into the mapping (a ticket that had none, or a changed one) is the open
\* step of that ticket and its order was submitted and accepted.  An open
\* step whose order was not both submitted and accepted leaves the mapping
\* and the mapping file as they were, and when the gate did not pass (hours
\* closed, check denied) it submits no order at all.
C22_RecordOnlyAfterSuccess ==
    [][/\ \A t \in DOMAIN Mirror' :
            (t \notin DOMAIN Mirror \/ Mirror'[t] # Mirror[t])
                => /\ ev'.op = "open" /\ ev'.ticket = t
                   /\ ev'.order.sent /\ ev'.order.accepted
       /\ (ev'.op = "open" /\ ~(ev'.order.sent /\ ev'.order.accepted))
                => (Mirror' = Mirror /\ mapping_file' = mapping_file)
       /\ (ev'.op = "open" /\ copier = "robinhood" /\ ~ev'.raised /\ ~Passed(ev'))
                => ~ev'.order.sent]_vars

\* An open order of the robinhood copier that was submitted and did not come
\* back: the ticket has no record.
C22_Witness ==
    /\ copier = "robinhood"
    /\ ev.op = "open" /\ ev.order.sent /\ ~ev.order.accepted
    /\ ev.ticket \notin DOMAIN ticket_to_rh

\* C23: every change of the mapping is persisted at once.  A step that
\* creates or deletes a record leaves the durable store holding exactly the
\* mapping in memory, unless the write failed: the file was left damaged, or
\* (tradelocker copier, whose every change calls save_trade_mapping) the file
\* could not be opened and is as before.  The robinhood copier has no write
\* that could fail.
C23_MutationPersisted ==
    [][(Mirror' # Mirror)
          => \/ load_trade_mapping(mapping_file') = Mirror'
             \/ mapping_file' = CorruptFile
             \/ (copier = "tradelocker" /\ mapping_file' = mapping_file)]_vars

\* C24: load failure.  load_trade_mapping on a file that is missing or
\* damaged (unreadable, partially written) returns the empty mapping, and
\* whatever the file it returns either nothing or the whole mapping that was
\* saved, never a part of it.
C24_LoadFailureGivesEmpty ==
    (call.fn = "load_trade_mapping") =>
        /\ (call.file.state # "ok") => ticket_to_tradelocker = Empty
        /\ ticket_to_tradelocker \in {Empty, call.mapping}

\* A damaged file was read while the mapping at hand was not empty, and the
\* load returned the empty mapping.
C24_Witness ==
    /\ call.fn = "load_trade_mapping"
    /\ call.file = CorruptFile
    /\ call.mapping # Empty
    /\ ticket_to_tradelocker = Empty

\* C25: a closed ticket without a record is skipped.  The step of the
\* closed-tickets loop that visits a ticket which has no record evaluates no
\* gate check, submits no close order, raises nothing, and leaves the
\* day-trade counters, the mapping and the mapping file as they were.
C25_UnmirroredCloseSkipped ==
    [][(pc = "closed" /\ ev'.op \in {"close", "skip"} /\ ev'.ticket \notin MirrorTickets)
          => /\ ev'.op = "skip" /\ ~ev'.raised
             /\ ev'.hours = "n/a" /\ ev'.gate = "n/a"
             /\ ~ev'.order.sent
             /\ day_trades_count' = day_trades_count
             /\ Mirror' = Mirror
             /\ mapping_file' = mapping_file]_vars

\* The robinhood copier has skipped the close of a ticket that it never
\* mirrored: the ticket left the source and there is no record of it.
C25_Witness ==
    /\ copier = "robinhood"
    /\ ev.op = "skip"
    /\ ev.ticket \notin DOMAIN positions
    /\ ev.ticket \notin DOMAIN ticket_to_rh
    /\ day_trades_count = Empty

\* C26: at most one close order per record.  No step submits a close order
\* for a ticket whose present record already had a close order submitted in
\* this run, whether that close succeeded or failed.
C26_CloseAtMostOnce ==
    [][(ev'.op = "close" /\ ev'.order.sent) => ev'.ticket \notin close_sent]_vars

\* C27: the closing leg.  A close order submitted for a stored rh_info has
\* position effect "close", the side opposite to the recorded side (buy gives
\* sell, sell gives buy), and the recorded symbol, expiration, strike, option
\* type and quantity.
C27_ClosingLeg ==
    (call.fn = "close_robinhood_position" /\ call.order.sent) =>
        /\ call.order.effect = "close"
        /\ (call.info.side = "buy") => call.order.side = "sell"
        /\ (call.info.side = "sell") => call.order.side = "buy"
        /\ call.order.symbol = call.info.symbol
        /\ call.order.exp = call.info.expiration_date
        /\ call.order.strike = call.info.strike
        /\ call.order.option_type = call.info.option_type
        /\ call.order.quantity = call.info.quantity

\* Three puts with strike 300.00, recorded as sold on day 8, were closed on
\* day 9 by a buy.
C27_Witness ==
    /\ call.fn = "close_robinhood_position"
    /\ call.info.side = "sell" /\ call.info.option_type = "put"
    /\ call.info.quantity = 3 /\ call.info.strike = 30000
    /\ call.info.expiration_date = 8 /\ call.day = 9
    /\ call.order.sent /\ call.order.side = "buy" /\ call.order.exp = 8

\* C28: the opening leg.  The order submitted for a source position buys to
\* open, a call for a long (BUY) position and a put for a short (SELL) one, on
\* TSLA, expiring on the day of the translation, for as many contracts as the
\* position's size has whole lots (int of the size).
C28_OpeningLeg ==
    (call.fn = "copy_mt5_trade_to_robinhood" /\ call.order.sent) =>
        /\ call.order.side = "buy" /\ call.order.effect = "open"
        /\ (call.trade.type = ORDER_TYPE_BUY) => call.order.option_type = "call"
        /\ (call.trade.type = ORDER_TYPE_SELL) => call.order.option_type = "put"
        /\ call.order.symbol = "TSLA"
        /\ call.order.exp = call.day
        /\ call.order.quantity * 10 <= call.trade.volume
        /\ call.trade.volume < (call.order.quantity + 1) * 10

\* A short position of 2.5 lots was translated on day 9: two puts bought to
\* open.
C28_Witness ==
    /\ call.fn = "copy_mt5_trade_to_robinhood"
    /\ call.trade.type = ORDER_TYPE_SELL /\ call.trade.volume = 25 /\ call.day = 9
    /\ call.order.sent /\ call.order.accepted
    /\ call.order.option_type = "put" /\ call.order.quantity = 2
    /\ call.info.some /\ call.info.expiration_date = 9

\* C29: the gate only reads.  An open step of the robinhood loop, whatever
\* its gate evaluation gave (hours closed, allowed, denied, lookup failed),
\* leaves every day-trade counter as it was, changes the mapping only by
\* the record of an accepted order, and changes old_tickets only by the
\* assignment that ends the tick.  A close step changes the counters only
\* as record_day_trade_if_applicable does.
C29_GateIsPureRead ==
    [][/\ (copier = "robinhood" /\ ev'.op = "open" /\ ~ev'.raised)
            => /\ day_trades_count' = day_trades_count
               /\ (~ev'.order.accepted) => ticket_to_rh' = ticket_to_rh
               /\ old_tickets' \in {old_tickets, current_tickets(current_positions)}
       /\ (copier = "robinhood" /\ ev'.op = "close" /\ ~ev'.raised)
            => /\ day_trades_count' =
                      record_day_trade_if_applicable(day_trades_count,
                          ticket_to_rh[ev'.ticket].open_time, today)
               /\ old_tickets' \in {old_tickets, current_tickets(current_positions)}]_vars

\* With one day trade counted, the check of an open was evaluated and
\* denied for a failed lookup; the counter is still there.
C29_Witness ==
    /\ copier = "robinhood"
    /\ ev.op = "open" /\ ev.hours = "open" /\ ev.gate = "deny" /\ ~ev.profile.ok
    /\ day_trades_count = (0 :> 1)

\* C30: tracking invariant.  Between ticks every ticket that has a record
\* is in old_tickets, so that its leaving a later snapshot is seen as a
\* close.
C30_TrackedIsPrevious ==
    (pc = "idle") => MirrorTickets \subseteq old_tickets

\* C31: startup baseline (robinhood).  For a position that was in the
\* snapshot taken before the loop started, no step submits an open order,
\* and none submits a close order.
C31_StartupBaseline ==
    [][(ev'.op \in {"open", "close"} /\ ev'.order.sent)
          => ev'.ticket \notin InitialTickets]_vars

====
